---- MODULE Spec2Model ----
(***************************************************************************)
(* Model of the Element Clone Library (src/element-cloner.ts): the page's  *)
(* node heap and document tree, inline styles as CSSStyleDeclaration       *)
(* objects, and one action per public operation of ElementCloner and per   *)
(* capability of the handle returned by cloneAndAddToDOM.                  *)
(***************************************************************************)
EXTENDS Integers, Sequences, FiniteSets, TLC

\* ------------------------------------------------------------------------
\* Bounds of the model
\* ------------------------------------------------------------------------
MaxNodes == 10
MaxStyleWrites == 1
MaxMoves == 1
MaxCaptures == 2

\* ------------------------------------------------------------------------
\* The page: node numbers of the initial document
\* ------------------------------------------------------------------------
NULL == 0
HTML == 1
HEAD == 2
BODY == 3
CONTAINER == 4
INNER == 5
LEAF == 6
SIBLING == 7
PageNodes == 7

\* the largest subtree cloneNode copies: #container, #inner and the leaf
LargestSubtree == 3

\* node numbers of the heap: MaxNodes nodes that stay, and room for the
\* transient clone of getFullDimensions
HeapSize == MaxNodes + LargestSubtree

Absent == "<absent>"
Undefined == "<undefined>"

VARIABLES heap, handles, result, writes, moves, captures, preview

vars == <<heap, handles, result, writes, moves, captures, preview>>

\* ------------------------------------------------------------------------
\* CSSStyleDeclaration: an inline style is a record of longhand values,
\* "" meaning the property is not declared.  `overflow` is the shorthand
\* of overflow-x and overflow-y.
\* ------------------------------------------------------------------------
EmptyStyle ==
  [maxHeight |-> "", overflowX |-> "", overflowY |-> "", position |-> "",
   left |-> "", top |-> "", zIndex |-> "", display |-> ""]

Shorthand(x, y) ==
  IF x = y THEN x
  ELSE IF x = "" \/ y = "" THEN ""
  ELSE x \o " " \o y

SetProperty(st, prop, val) ==
  IF prop = "overflow"
  THEN [st EXCEPT !.overflowX = val, !.overflowY = val]
  ELSE [st EXCEPT ![prop] = val]

GetProperty(st, prop) ==
  IF prop = "overflow" THEN Shorthand(st.overflowX, st.overflowY)
  ELSE st[prop]

\* ------------------------------------------------------------------------
\* DOM tree operations on a heap hp = [kids, attrs, styleOf, style, used]
\* ------------------------------------------------------------------------
Nodes(hp) == 1 .. hp.used

Range(s) == {s[i] : i \in 1 .. Len(s)}

IndexOf(s, x) == CHOOSE i \in 1 .. Len(s) : s[i] = x

Without(s, x) == SelectSeq(s, LAMBDA y : y # x)

RECURSIVE Preorder(_, _)
RECURSIVE PreorderAll(_, _)
Preorder(hp, n) == <<n>> \o PreorderAll(hp, hp.kids[n])

PreorderAll(hp, s) ==
  IF s = <<>> THEN <<>>
  ELSE Preorder(hp, Head(s)) \o PreorderAll(hp, Tail(s))

Subtree(hp, n) == Range(Preorder(hp, n))

parentNode(hp, n) ==
  IF \E p \in Nodes(hp) : n \in Range(hp.kids[p])
  THEN CHOOSE p \in Nodes(hp) : n \in Range(hp.kids[p])
  ELSE NULL

contains(hp, a, b) == b \in Subtree(hp, a)

InDocument(hp, n) == contains(hp, HTML, n)

InlineStyle(hp, n) == hp.style[hp.styleOf[n]]

getElementById(hp, id) ==
  LET order == Preorder(hp, HTML)
      hits == {i \in 1 .. Len(order) : hp.attrs[order[i]].id = id}
  IN IF id = "" \/ hits = {} THEN NULL
     ELSE order[CHOOSE i \in hits : \A j \in hits : i <= j]

Detach(hp, c) ==
  [hp EXCEPT !.kids = [p \in DOMAIN hp.kids |->
                         IF c \in Range(hp.kids[p])
                         THEN Without(hp.kids[p], c) ELSE hp.kids[p]]]

appendChild(hp, p, c) ==
  LET d == Detach(hp, c)
  IN [d EXCEPT !.kids[p] = Append(@, c)]

\* removeChild throws NotFoundError when c is not a child of p
removeChildThrows(hp, p, c) == parentNode(hp, c) # p

removeChild(hp, p, c) == Detach(hp, c)

setStyle(hp, n, prop, val) ==
  [hp EXCEPT !.style[hp.styleOf[n]] = SetProperty(@, prop, val)]

cloneNodeSharedStyle(hp, n) ==
  LET order == Preorder(hp, n)
      k == Len(order)
      base == hp.used
      fresh(old) == base + IndexOf(order, old)
      isNew(m) == m > base /\ m <= base + k
      src(m) == order[m - base]
  IN [heap |->
        [kids |-> [m \in DOMAIN hp.kids |->
                     IF isNew(m)
                     THEN [j \in 1 .. Len(hp.kids[src(m)]) |->
                             fresh(hp.kids[src(m)][j])]
                     ELSE hp.kids[m]],
         attrs |-> [m \in DOMAIN hp.attrs |->
                     IF isNew(m) THEN hp.attrs[src(m)] ELSE hp.attrs[m]],
         styleOf |-> [m \in DOMAIN hp.styleOf |->
                     IF isNew(m) THEN hp.styleOf[src(m)] ELSE hp.styleOf[m]],
         style |-> hp.style,
         used |-> base + k],
      node |-> base + 1]

\* element.cloneNode(true): a fresh node, with a style object of its own,
\* for every node of the subtree, numbered in tree order after hp.used
cloneNode(hp, n) ==
  LET order == Preorder(hp, n)
      k == Len(order)
      base == hp.used
      fresh(old) == base + IndexOf(order, old)
      isNew(m) == m > base /\ m <= base + k
      src(m) == order[m - base]
  IN [heap |->
        [kids |-> [m \in DOMAIN hp.kids |->
                     IF isNew(m)
                     THEN [j \in 1 .. Len(hp.kids[src(m)]) |->
                             fresh(hp.kids[src(m)][j])]
                     ELSE hp.kids[m]],
         attrs |-> [m \in DOMAIN hp.attrs |->
                     IF isNew(m) THEN hp.attrs[src(m)] ELSE hp.attrs[m]],
         styleOf |-> [m \in DOMAIN hp.styleOf |->
                     IF isNew(m) THEN m ELSE hp.styleOf[m]],
         style |-> [m \in DOMAIN hp.style |->
                     IF isNew(m) THEN InlineStyle(hp, src(m))
                     ELSE hp.style[m]],
         used |-> base + k],
      node |-> base + 1]

\* nodes no script can reach any more are collected: the heap is cut back
\* to `keep` nodes (only ever applied to the most recent allocation)
Release(hp, keep) ==
  [kids |-> [m \in DOMAIN hp.kids |-> IF m > keep THEN <<>> ELSE hp.kids[m]],
   attrs |-> [m \in DOMAIN hp.attrs |->
               IF m > keep THEN [id |-> "", cls |-> "", h |-> 0, w |-> 0]
               ELSE hp.attrs[m]],
   styleOf |-> [m \in DOMAIN hp.styleOf |-> IF m > keep THEN m ELSE hp.styleOf[m]],
   style |-> [m \in DOMAIN hp.style |-> IF m > keep THEN EmptyStyle ELSE hp.style[m]],
   used |-> keep]

\* ------------------------------------------------------------------------
\* The page's stylesheet and window.getComputedStyle
\* ------------------------------------------------------------------------
Sheet(cls) ==
  IF cls = "box"
  THEN [maxHeight |-> "200px", overflowX |-> "auto", overflowY |-> "auto",
        important |-> FALSE]
  ELSE IF cls = "scroll"
  THEN [maxHeight |-> "50px", overflowX |-> "hidden", overflowY |-> "hidden",
        important |-> FALSE]
  ELSE IF cls = "pinned"
  THEN [maxHeight |-> "50px", overflowX |-> "hidden", overflowY |-> "hidden",
        important |-> TRUE]
  ELSE [maxHeight |-> "", overflowX |-> "", overflowY |-> "",
        important |-> FALSE]

\* cascade: an !important declaration of the stylesheet beats the inline
\* declaration, which beats the other stylesheet rules; an undeclared or
\* `unset` property takes its initial value
Cascaded(hp, n, prop, initial) ==
  LET inline == InlineStyle(hp, n)[prop]
      rule == Sheet(hp.attrs[n].cls)
      v == IF rule.important /\ rule[prop] # "" THEN rule[prop]
           ELSE IF inline # "" THEN inline
           ELSE rule[prop]
  IN IF v = "" \/ v = "unset" THEN initial ELSE v

\* a `visible` axis computes to `auto` when the other axis is not visible
ComputedValues(hp, n) ==
  LET mh == Cascaded(hp, n, "maxHeight", "none")
      sx == Cascaded(hp, n, "overflowX", "visible")
      sy == Cascaded(hp, n, "overflowY", "visible")
      cx == IF sx = "visible" /\ sy # "visible" THEN "auto" ELSE sx
      cy == IF sy = "visible" /\ sx # "visible" THEN "auto" ELSE sy
  IN [maxHeight |-> mh, overflow |-> Shorthand(cx, cy),
      overflowX |-> cx, overflowY |-> cy]

\* an element that is not connected has no computed values
getComputedStyle(hp, n) ==
  IF InDocument(hp, n) THEN ComputedValues(hp, n)
  ELSE [maxHeight |-> "", overflow |-> "", overflowX |-> "", overflowY |-> ""]

\* ------------------------------------------------------------------------
\* Layout: block flow of the children under the node's own content
\* ------------------------------------------------------------------------
Px(v) ==
  IF v = "50px" THEN 50
  ELSE IF v = "100px" THEN 100
  ELSE IF v = "200px" THEN 200
  ELSE -1

Max(a, b) == IF a >= b THEN a ELSE b

RECURSIVE BoxHeight(_, _)
RECURSIVE SumBoxHeight(_, _)
RECURSIVE ScrollExtent(_, _)
RECURSIVE MaxBottom(_, _, _)
SumBoxHeight(hp, s) ==
  IF s = <<>> THEN 0 ELSE BoxHeight(hp, Head(s)) + SumBoxHeight(hp, Tail(s))

BoxHeight(hp, n) ==
  LET content == hp.attrs[n].h + SumBoxHeight(hp, hp.kids[n])
      limit == Px(ComputedValues(hp, n).maxHeight)
  IN IF InlineStyle(hp, n).display = "none" THEN 0
     ELSE IF limit >= 0 /\ limit < content THEN limit ELSE content

MaxBottom(hp, s, offset) ==
  IF s = <<>> THEN offset
  ELSE LET c == Head(s)
           reach == IF ComputedValues(hp, c).overflowY = "visible"
                    THEN ScrollExtent(hp, c) ELSE BoxHeight(hp, c)
       IN Max(offset + reach,
              MaxBottom(hp, Tail(s), offset + BoxHeight(hp, c)))

ScrollExtent(hp, n) ==
  IF InlineStyle(hp, n).display = "none" THEN 0
  ELSE Max(BoxHeight(hp, n), MaxBottom(hp, hp.kids[n], hp.attrs[n].h))

RECURSIVE MaxWidth(_, _)
MaxWidth(hp, s) ==
  IF s = <<>> THEN 0 ELSE Max(hp.attrs[Head(s)].w, MaxWidth(hp, Tail(s)))

Rendered(hp, n) == InDocument(hp, n) /\ InlineStyle(hp, n).display # "none"

\* scrollWidth, scrollHeight, offsetWidth and offsetHeight of an element,
\* all 0 for an element that is not rendered
Dimensions(hp, n) ==
  IF Rendered(hp, n)
  THEN [width |-> MaxWidth(hp, Preorder(hp, n)),
        height |-> ScrollExtent(hp, n),
        offsetWidth |-> hp.attrs[n].w,
        offsetHeight |-> BoxHeight(hp, n)]
  ELSE [width |-> 0, height |-> 0, offsetWidth |-> 0, offsetHeight |-> 0]

\* ------------------------------------------------------------------------
\* ElementCloner (src/element-cloner.ts) as functions on the heap
\* ------------------------------------------------------------------------
\* a target is a string id or an element handle (NULL for a null handle)
StringTarget(id) == [isString |-> TRUE, id |-> id, el |-> NULL]

ElementTarget(el) == [isString |-> FALSE, id |-> "", el |-> el]

ResolveTargetOrDefault(hp, target) ==
  LET found == IF target.isString THEN getElementById(hp, target.id)
               ELSE target.el
  IN IF found = NULL THEN CONTAINER ELSE found

ResolveTarget(hp, target) ==
  IF target.isString THEN getElementById(hp, target.id) ELSE target.el

RECURSIVE removeScrollLimits(_, _)
RECURSIVE removeScrollLimitsChildren(_, _)
removeScrollLimitsShallow(hp, element) ==
  LET h1 == setStyle(hp, element, "maxHeight", "unset")
      h2 == setStyle(h1, element, "overflowY", "visible")
  IN setStyle(h2, element, "overflow", "visible")

removeScrollLimits(hp, element) ==
  LET h1 == setStyle(hp, element, "maxHeight", "unset")
      h2 == setStyle(h1, element, "overflowY", "visible")
      h3 == setStyle(h2, element, "overflow", "visible")
  IN removeScrollLimitsChildren(h3, h3.kids[element])

removeScrollLimitsChildren(hp, s) ==
  IF s = <<>> THEN hp
  ELSE removeScrollLimitsChildren(removeScrollLimits(hp, Head(s)), Tail(s))

\* the positioning branch of cloneElement
applyPosition(hp, el, position) ==
  IF position = "off-screen"
  THEN setStyle(setStyle(setStyle(setStyle(hp, el, "position", "absolute"),
                                  el, "left", "-9999px"),
                         el, "top", "0"),
                el, "zIndex", "-1")
  ELSE IF position = "visible"
  THEN setStyle(setStyle(hp, el, "position", "relative"),
                el, "display", "block")
  ELSE hp

\* Object.assign(clonedElement.style, options.styles): the entries are
\* written one after the other, in the order of the record's keys
RECURSIVE assignStyles(_, _, _)
assignStyles(hp, el, styles) ==
  IF styles = <<>> THEN hp
  ELSE assignStyles(setStyle(hp, el, Head(styles)[1], Head(styles)[2]),
                    el, Tail(styles))

cloneElementStylesFirst(hp, target, options) ==
  LET element == ResolveTarget(hp, target)
  IN IF element = NULL
     THEN [threw |-> TRUE, heap |-> hp, element |-> NULL]
     ELSE LET c == cloneNode(hp, element)
              h1 == removeScrollLimits(c.heap, c.node)
              h2 == assignStyles(h1, c.node, options.styles)
              h3 == applyPosition(h2, c.node, options.position)
          IN [threw |-> FALSE, heap |-> h3, element |-> c.node]

cloneElementAttached(hp, target, options) ==
  LET element == ResolveTarget(hp, target)
  IN IF element = NULL
     THEN [threw |-> TRUE, heap |-> hp, element |-> NULL]
     ELSE LET c == cloneNode(hp, element)
              h1 == removeScrollLimits(c.heap, c.node)
              h2 == applyPosition(h1, c.node, options.position)
              h3 == assignStyles(h2, c.node, options.styles)
          IN [threw |-> FALSE, heap |-> appendChild(h3, BODY, c.node),
              element |-> c.node]

cloneElement(hp, target, options) ==
  LET element == ResolveTarget(hp, target)
  IN IF element = NULL
     THEN [threw |-> TRUE, heap |-> hp, element |-> NULL]
     ELSE LET c == cloneNode(hp, element)
              h1 == removeScrollLimits(c.heap, c.node)
              h2 == applyPosition(h1, c.node, options.position)
              h3 == assignStyles(h2, c.node, options.styles)
          IN [threw |-> FALSE, heap |-> h3, element |-> c.node]

\* { position: "off-screen", ...options }: a position key that is present
\* in options, whatever its value, replaces the default
withDefaultPosition(options) ==
  [options EXCEPT !.position =
     IF options.position = Absent THEN "off-screen" ELSE options.position]

cloneAndAddToDOM(hp, target, options) ==
  LET r == cloneElement(hp, target, withDefaultPosition(options))
  IN IF r.threw
     THEN [threw |-> TRUE, heap |-> hp, element |-> NULL]
     ELSE [threw |-> FALSE, heap |-> appendChild(r.heap, BODY, r.element),
           element |-> r.element]

removeLastChild(hp, clonedElement) ==
  IF contains(hp, BODY, clonedElement)
  THEN [threw |-> FALSE,
        heap |-> removeChild(hp, BODY,
                             hp.kids[BODY][Len(hp.kids[BODY])])]
  ELSE [threw |-> FALSE, heap |-> hp]

removeUnguarded(hp, clonedElement) ==
  IF removeChildThrows(hp, BODY, clonedElement)
  THEN [threw |-> TRUE, heap |-> hp]
  ELSE [threw |-> FALSE, heap |-> removeChild(hp, BODY, clonedElement)]

\* the remove closure of the handle cloneAndAddToDOM returns
remove(hp, clonedElement) ==
  IF contains(hp, BODY, clonedElement)
  THEN IF removeChildThrows(hp, BODY, clonedElement)
       THEN [threw |-> TRUE, heap |-> hp]
       ELSE [threw |-> FALSE, heap |-> removeChild(hp, BODY, clonedElement)]
  ELSE [threw |-> FALSE, heap |-> hp]

NoDims == [width |-> -1, height |-> -1, offsetWidth |-> -1, offsetHeight |-> -1]

NoInfo ==
  [hasMaxHeight |-> FALSE, hasOverflow |-> FALSE, hasOverflowY |-> FALSE,
   maxHeight |-> "-", overflow |-> "-", overflowY |-> "-"]

getFullDimensionsNoDetach(hp, target) ==
  LET r == cloneElement(hp, target,
                        [position |-> "off-screen", styles |-> <<>>])
  IN IF r.threw
     THEN [threw |-> TRUE, heap |-> hp, element |-> NULL, dims |-> NoDims]
     ELSE LET attached == appendChild(r.heap, BODY, r.element)
          IN [threw |-> FALSE, heap |-> attached, element |-> r.element,
              dims |-> Dimensions(attached, r.element)]

getFullDimensions(hp, target) ==
  LET r == cloneElement(hp, target,
                        [position |-> "off-screen", styles |-> <<>>])
  IN IF r.threw
     THEN [threw |-> TRUE, heap |-> hp, element |-> NULL, dims |-> NoDims]
     ELSE LET attached == appendChild(r.heap, BODY, r.element)
              dimensions == Dimensions(attached, r.element)
          IN IF removeChildThrows(attached, BODY, r.element)
             THEN [threw |-> TRUE, heap |-> attached, element |-> r.element,
                   dims |-> NoDims]
             ELSE [threw |-> FALSE,
                   heap |-> removeChild(attached, BODY, r.element),
                   element |-> r.element, dims |-> dimensions]

checkScrollLimitsInline(hp, element) ==
  LET st == InlineStyle(hp, element)
  IN [hasMaxHeight |-> st.maxHeight # "none",
      hasOverflow |-> GetProperty(st, "overflow") # "visible",
      hasOverflowY |-> st.overflowY # "visible",
      maxHeight |-> st.maxHeight,
      overflow |-> GetProperty(st, "overflow"),
      overflowY |-> st.overflowY]

\* the report of checkScrollLimits for a resolved element
checkScrollLimits(hp, element) ==
  LET computedStyle == getComputedStyle(hp, element)
  IN [hasMaxHeight |-> computedStyle.maxHeight # "none",
      hasOverflow |-> computedStyle.overflow # "visible",
      hasOverflowY |-> computedStyle.overflowY # "visible",
      maxHeight |-> computedStyle.maxHeight,
      overflow |-> computedStyle.overflow,
      overflowY |-> computedStyle.overflowY]

\* ------------------------------------------------------------------------
\* Inputs
\* ------------------------------------------------------------------------
Opt(position, styles) == [position |-> position, styles |-> styles]

\* styles that write a property of the off-screen placement again
PlacementProps == << <<"left", "0px">>, <<"top", "10px">> >>

\* styles that write normalized properties again, the shorthand last
OverflowProps == << <<"overflowY", "scroll">>, <<"overflow", "hidden">> >>

OptionChoices ==
  { Opt(Absent, <<>>), Opt(Undefined, <<>>),
    Opt("off-screen", PlacementProps), Opt("visible", OverflowProps) }

NoOptions == [position |-> Absent, styles |-> <<>>]

\* targets: ids of the page, a null handle, an element of the page and the
\* elements of the handles returned so far
TargetChoices ==
  {StringTarget(id) : id \in {"container", "inner", "missing"}}
    \cup {ElementTarget(el) : el \in {NULL} \cup Range(handles)}

NoResult ==
  [op |-> "none", threw |-> FALSE, target |-> ElementTarget(NULL),
   options |-> NoOptions, element |-> NULL, handle |-> 0,
   dims |-> NoDims, info |-> NoInfo]

\* room on the heap for a clone of the target's subtree
Fits(target) ==
  LET element == ResolveTarget(heap, target)
  IN IF element = NULL THEN TRUE
     ELSE heap.used + Cardinality(Subtree(heap, element)) <= MaxNodes

\* the targets a clone of which the heap has room for
CloneTargets == {t \in TargetChoices : Fits(t)}

\* ------------------------------------------------------------------------
\* Initial page:  html > (head, body > (#container.box > #inner.scroll > leaf,
\*                                      #sibling))
\* ------------------------------------------------------------------------
InitialKids ==
  [m \in 1 .. HeapSize |->
     IF m = HTML THEN <<HEAD, BODY>>
     ELSE IF m = BODY THEN <<CONTAINER, SIBLING>>
     ELSE IF m = CONTAINER THEN <<INNER>>
     ELSE IF m = INNER THEN <<LEAF>>
     ELSE <<>>]

InitialAttrs ==
  [m \in 1 .. HeapSize |->
     IF m = CONTAINER THEN [id |-> "container", cls |-> "box", h |-> 20, w |-> 300]
     ELSE IF m = INNER THEN [id |-> "inner", cls |-> "scroll", h |-> 0, w |-> 280]
     ELSE IF m = LEAF THEN [id |-> "", cls |-> "", h |-> 500, w |-> 280]
     ELSE IF m = SIBLING THEN [id |-> "sibling", cls |-> "", h |-> 30, w |-> 300]
     ELSE [id |-> "", cls |-> "", h |-> 0, w |-> 0]]

\* the page's inline styles: scroll limits on both boxes
InitialStyle ==
  [m \in 1 .. HeapSize |->
     IF m = CONTAINER
     THEN [EmptyStyle EXCEPT !.maxHeight = "100px", !.overflowX = "hidden",
                             !.overflowY = "hidden"]
     ELSE IF m = INNER
     THEN [EmptyStyle EXCEPT !.maxHeight = "50px", !.overflowY = "scroll"]
     ELSE EmptyStyle]

Init ==
  /\ heap = [kids |-> InitialKids,
             attrs |-> InitialAttrs,
             styleOf |-> [m \in 1 .. HeapSize |-> m],
             style |-> InitialStyle,
             used |-> PageNodes]
  /\ handles = <<>>
  /\ result = NoResult
  /\ writes = 0
  /\ moves = 0
  /\ captures = <<>>
  /\ preview = 0

\* ------------------------------------------------------------------------
\* Operations: `result` records the last call and what it returned
\* ------------------------------------------------------------------------
\* ElementCloner.cloneElement(target, options)
CloneElement(target, options) ==
  /\ \E r \in {cloneElement(heap, target, options)} :
        /\ heap' = r.heap
        /\ result' = [NoResult EXCEPT !.op = "cloneElement", !.threw = r.threw,
                        !.target = target, !.element = r.element,
                        !.options = IF r.threw THEN NoOptions ELSE options]
  /\ UNCHANGED <<handles, writes, moves, captures, preview>>

\* ElementCloner.cloneAndAddToDOM(target, options)
CloneAndAddToDOM(target, options) ==
  /\ \E r \in {cloneAndAddToDOM(heap, target, options)} :
        /\ heap' = r.heap
        /\ handles' = IF r.threw THEN handles ELSE Append(handles, r.element)
        /\ result' = [NoResult EXCEPT !.op = "cloneAndAddToDOM",
                        !.threw = r.threw, !.target = target,
                        !.element = r.element,
                        !.options = IF r.threw THEN NoOptions ELSE options,
                        !.handle = IF r.threw THEN 0 ELSE Len(handles) + 1]
  /\ UNCHANGED <<writes, moves, captures, preview>>

\* the remove() of the h-th handle
Remove(h) ==
  /\ \E r \in {remove(heap, handles[h])} :
        /\ heap' = r.heap
        /\ result' = [NoResult EXCEPT !.op = "remove", !.threw = r.threw,
                        !.element = handles[h], !.handle = h]
  /\ UNCHANGED <<handles, writes, moves, captures, preview>>

\* the getDimensions() of the h-th handle
GetDimensions(h) ==
  /\ result' = [NoResult EXCEPT !.op = "getDimensions",
                  !.element = handles[h], !.handle = h,
                  !.dims = Dimensions(heap, handles[h])]
  /\ UNCHANGED <<heap, handles, writes, moves, captures, preview>>

\* ElementCloner.getFullDimensions(target); the detached clone is
\* unreachable once the call has returned and its nodes are collected
GetFullDimensions(target) ==
  /\ \E r \in {getFullDimensions(heap, target)} :
        /\ heap' = IF r.element = NULL \/ InDocument(r.heap, r.element)
                   THEN r.heap
                   ELSE Release(r.heap, heap.used)
        /\ result' = [NoResult EXCEPT !.op = "getFullDimensions",
                        !.threw = r.threw, !.target = target,
                        !.dims = r.dims]
  /\ UNCHANGED <<handles, writes, moves, captures, preview>>

\* ElementCloner.checkScrollLimits(target)
CheckScrollLimits(target) ==
  /\ \E element \in {ResolveTarget(heap, target)} :
        result' = IF element = NULL
                  THEN [NoResult EXCEPT !.op = "checkScrollLimits",
                          !.threw = TRUE, !.target = target]
                  ELSE [NoResult EXCEPT !.op = "checkScrollLimits",
                          !.target = target, !.element = element,
                          !.info = checkScrollLimits(heap, element)]
  /\ UNCHANGED <<heap, handles, writes, moves, captures, preview>>

\* ElementCloner.removeScrollLimits(element), called on an element
RemoveScrollLimits(element) ==
  /\ heap' = removeScrollLimits(heap, element)
  /\ result' = [NoResult EXCEPT !.op = "removeScrollLimits",
                  !.element = element]
  /\ UNCHANGED <<handles, writes, moves, captures, preview>>

\* a script writes element.style[prop] = val
SetStyle(element, prop, val) ==
  /\ writes < MaxStyleWrites
  /\ writes' = writes + 1
  /\ heap' = setStyle(heap, element, prop, val)
  /\ result' = [NoResult EXCEPT !.op = "setStyle", !.element = element]
  /\ UNCHANGED <<handles, moves, captures, preview>>

\* page code moves a handle's clone: parent.appendChild(clone)
MoveClone(h, parent) ==
  /\ moves < MaxMoves
  /\ moves' = moves + 1
  /\ heap' = appendChild(heap, parent, handles[h])
  /\ result' = [NoResult EXCEPT !.op = "move", !.element = handles[h],
                  !.handle = h]
  /\ UNCHANGED <<handles, writes, captures, preview>>

\* page code detaches a handle's clone: clone.remove()
DetachClone(h) ==
  /\ moves < MaxMoves
  /\ moves' = moves + 1
  /\ heap' = Detach(heap, handles[h])
  /\ result' = [NoResult EXCEPT !.op = "detach", !.element = handles[h],
                  !.handle = h]
  /\ UNCHANGED <<handles, writes, captures, preview>>

\* elements a script holds: two elements of the page and the roots of the
\* clones it was given
Elements ==
  {CONTAINER, INNER}
    \cup {n \in (PageNodes + 1) .. heap.used :
            parentNode(heap, n) \in {NULL, HEAD, BODY, SIBLING}}

WrittenStyles == { <<"overflow", "scroll">> }

\* ------------------------------------------------------------------------
\* The capture flow of the page (src/main.js): window.cloneAndCapture and
\* the reactions of html2canvas(...).then(...).catch(...).finally(...).
\* `captures` holds one record per call that got its clone, `preview` the
\* call whose .capture-preview panel the page shows (0 for none); the panel
\* is page chrome that no clone contains and is kept outside the heap.
\* ------------------------------------------------------------------------
CaptureIds == {"container", "inner", "missing"}

Outcomes == {"fulfilled", "rejected"}

\* the calls whose chain has not run to its end
InFlight == {c \in 1 .. Len(captures) : captures[c].at # "done"}

\* room on the heap for a clone of the target's subtree
HasRoom(target) ==
  LET element == ResolveTarget(heap, target)
  IN IF element = NULL THEN TRUE
     ELSE heap.used + Cardinality(Subtree(heap, element)) <= HeapSize

finallyReactionNoCleanup(hp, clonedElement) == [threw |-> FALSE, heap |-> hp]

\* the finally callback: clonedData.remove()
finallyReaction(hp, clonedElement) == remove(hp, clonedElement)

\* window.cloneAndCapture(elementId), up to the return of html2canvas with
\* its pending promise; a failing cloneAndAddToDOM ends the call
CloneAndCapture(elementId) ==
  /\ Len(captures) < MaxCaptures
  /\ HasRoom(StringTarget(elementId))
  /\ \E r \in {cloneAndAddToDOM(heap, StringTarget(elementId), NoOptions)} :
       /\ heap' = r.heap
       /\ handles' = IF r.threw THEN handles ELSE Append(handles, r.element)
       /\ captures' =
            IF r.threw THEN captures
            ELSE Append(captures,
                        [handle |-> Len(handles) + 1,
                         at |-> "pending",
                         outcome |-> "pending",
                         overlaps |-> Cardinality(InFlight),
                         height |-> Dimensions(r.heap, r.element).height,
                         width |-> Dimensions(r.heap, r.element).width])
       /\ result' = [NoResult EXCEPT !.op = "cloneAndCapture",
                       !.threw = r.threw,
                       !.target = StringTarget(elementId),
                       !.element = r.element,
                       !.handle = IF r.threw THEN 0 ELSE Len(handles) + 1]
  /\ UNCHANGED <<writes, moves, preview>>

\* html2canvas settles the promise of call c
Settle(c, outcome) ==
  /\ c \in 1 .. Len(captures)
  /\ captures[c].at = "pending"
  /\ captures' = [captures EXCEPT ![c].at = outcome, ![c].outcome = outcome]
  /\ UNCHANGED <<heap, handles, result, writes, moves, preview>>

\* the reaction of .then: on fulfilment the handler runs, and either
\* canvas.toDataURL throws (a tainted canvas) before anything is changed or
\* the page's preview panel is replaced; a rejection passes through
ThenReaction(c, throws) ==
  /\ c \in 1 .. Len(captures)
  /\ captures[c].at \in Outcomes
  /\ IF captures[c].at = "fulfilled" /\ ~throws
     THEN /\ preview' = c
          /\ captures' = [captures EXCEPT ![c].at = "thenFulfilled"]
     ELSE /\ preview' = preview
          /\ captures' = [captures EXCEPT ![c].at = "thenRejected"]
  /\ UNCHANGED <<heap, handles, result, writes, moves>>

\* the reaction of .catch: logs a rejection, passes a fulfilment through
CatchReaction(c) ==
  /\ c \in 1 .. Len(captures)
  /\ captures[c].at \in {"thenFulfilled", "thenRejected"}
  /\ captures' = [captures EXCEPT ![c].at = "caught"]
  /\ UNCHANGED <<heap, handles, result, writes, moves, preview>>

\* the reaction of .finally
FinallyReaction(c) ==
  /\ c \in 1 .. Len(captures)
  /\ captures[c].at = "caught"
  /\ \E r \in {finallyReaction(heap, handles[captures[c].handle])} :
       /\ heap' = r.heap
       /\ result' = [NoResult EXCEPT !.op = "remove", !.threw = r.threw,
                       !.element = handles[captures[c].handle],
                       !.handle = captures[c].handle]
  /\ captures' = [captures EXCEPT ![c].at = "done"]
  /\ UNCHANGED <<handles, writes, moves, preview>>

\* the library's operations, called in any order
Next ==
  \/ \E t \in CloneTargets, o \in OptionChoices : CloneElement(t, o)
  \/ \E t \in CloneTargets, o \in OptionChoices : CloneAndAddToDOM(t, o)
  \/ \E h \in 1 .. Len(handles) : Remove(h)
  \/ \E h \in 1 .. Len(handles) : GetDimensions(h)
  \/ \E t \in TargetChoices : GetFullDimensions(t)
  \/ \E t \in TargetChoices : CheckScrollLimits(t)
  \/ \E e \in Elements : RemoveScrollLimits(e)

Spec == Init /\ [][Next]_vars

\* scripts that clone and then write to the styles of the elements they
\* hold, clones and originals
NextScript ==
  \/ \E t \in CloneTargets, o \in OptionChoices : CloneElement(t, o)
  \/ \E t \in CloneTargets, o \in OptionChoices : CloneAndAddToDOM(t, o)
  \/ \E t \in TargetChoices : GetFullDimensions(t)
  \/ \E e \in Elements, w \in WrittenStyles : SetStyle(e, w[1], w[2])

SpecScript == Init /\ [][NextScript]_vars

\* where page code puts a clone: under another element of body, outside
\* body, back at the end of body
MoveParents == <<SIBLING, HEAD, BODY>>

\* the life of the handles in a page whose own code moves or detaches the
\* clones it was handed
NextPage ==
  \/ \E t \in CloneTargets, o \in OptionChoices : CloneAndAddToDOM(t, o)
  \/ \E h \in 1 .. Len(handles) : Remove(h)
  \/ \E h \in 1 .. Len(handles) : GetDimensions(h)
  \/ \E h \in 1 .. Len(handles), i \in 1 .. Len(MoveParents) :
       MoveClone(h, MoveParents[i])
  \/ \E h \in 1 .. Len(handles) : DetachClone(h)

SpecPage == Init /\ [][NextPage]_vars

\* a page whose stylesheet limits #inner by a plain rule or by an !important
\* one
InnerClasses == {"scroll", "pinned"}

InitMeasure ==
  /\ \E cls \in InnerClasses :
       heap = [kids |-> InitialKids,
               attrs |-> [InitialAttrs EXCEPT ![INNER].cls = cls],
               styleOf |-> [m \in 1 .. HeapSize |-> m],
               style |-> InitialStyle,
               used |-> PageNodes]
  /\ handles = <<>>
  /\ result = NoResult
  /\ writes = 0
  /\ moves = 0
  /\ captures = <<>>
  /\ preview = 0

\* measuring originals and attached clones
NextMeasure ==
  \/ \E t \in CloneTargets, o \in OptionChoices : CloneAndAddToDOM(t, o)
  \/ \E h \in 1 .. Len(handles) : GetDimensions(h)
  \/ \E t \in TargetChoices : GetFullDimensions(t)
  \/ \E e \in Elements : RemoveScrollLimits(e)

SpecMeasure == InitMeasure /\ [][NextMeasure]_vars

\* overlapping captures: the 'a' key and window.cloneAndCapture called while
\* earlier calls are still waiting for html2canvas
NextCapture ==
  \/ \E id \in CaptureIds : CloneAndCapture(id)
  \/ \E c \in 1 .. MaxCaptures, outcome \in Outcomes : Settle(c, outcome)
  \/ \E c \in 1 .. MaxCaptures, throws \in BOOLEAN : ThenReaction(c, throws)
  \/ \E c \in 1 .. MaxCaptures : CatchReaction(c)
  \/ \E c \in 1 .. MaxCaptures : FinallyReaction(c)

SpecCapture == Init /\ [][NextCapture]_vars

\* promise reactions are microtasks: a reaction that is due is run
SpecCaptureLive ==
  /\ SpecCapture
  /\ \A c \in 1 .. MaxCaptures :
       /\ WF_vars(\E throws \in BOOLEAN : ThenReaction(c, throws))
       /\ WF_vars(CatchReaction(c))
       /\ WF_vars(FinallyReaction(c))

\* the targets a clone of which the heap has room for, scratch included
RoomTargets == {t \in TargetChoices : HasRoom(t)}

\* several handles at a time, on the same target or on each other's clones,
\* with the default options
NextHandles ==
  \/ \E t \in CloneTargets : CloneElement(t, NoOptions)
  \/ \E t \in RoomTargets : CloneAndAddToDOM(t, NoOptions)
  \/ \E h \in 1 .. Len(handles) : Remove(h)
  \/ \E h \in 1 .. Len(handles) : GetDimensions(h)
  \/ \E t \in RoomTargets : GetFullDimensions(t)

SpecHandles == Init /\ [][NextHandles]_vars

\* ------------------------------------------------------------------------
\* Properties
\* ------------------------------------------------------------------------
Style(n) == InlineStyle(heap, n)

Normalized(hp, n) ==
  /\ GetProperty(InlineStyle(hp, n), "maxHeight") = "unset"
  /\ GetProperty(InlineStyle(hp, n), "overflow") = "visible"
  /\ GetProperty(InlineStyle(hp, n), "overflowY") = "visible"

CloneOps == {"cloneElement", "cloneAndAddToDOM"}

TargetOps ==
  {"cloneElement", "cloneAndAddToDOM", "getFullDimensions", "checkScrollLimits"}

\* C1: after removeScrollLimits(E), E and every descendant of E, at any
\* depth, has inline max-height `unset` and inline overflow and overflow-y
\* `visible`, whatever they were before; the same holds of every descendant
\* of a clone that cloneElement has normalized.
C1_RemoveScrollLimitsWholeSubtree ==
  /\ result.op = "removeScrollLimits"
       => \A n \in Subtree(heap, result.element) : Normalized(heap, n)
  /\ (result.op \in CloneOps /\ ~result.threw)
       => \A n \in Subtree(heap, result.element) \ {result.element} :
            Normalized(heap, n)

C1_Witness ==
  /\ result.op = "removeScrollLimits"
  /\ result.element = CONTAINER
  /\ LEAF \in Subtree(heap, INNER) /\ INNER \in Subtree(heap, CONTAINER)
  /\ Normalized(heap, LEAF)

\* C2: cloning is non-aliasing.  A clone operation leaves the inline style
\* of every element that existed before the call unchanged, and a later
\* write to one element's style (a clone's or an original's) changes the
\* style of no other element.
C2_NonAliasing ==
  [][ /\ result'.op \in (CloneOps \cup {"getFullDimensions"})
           => \A n \in Nodes(heap) :
                InlineStyle(heap', n) = InlineStyle(heap, n)
      /\ result'.op = "setStyle"
           => \A n \in Nodes(heap) \ {result'.element} :
                InlineStyle(heap', n) = InlineStyle(heap, n) ]_vars

C2_Witness ==
  /\ result.op = "setStyle"
  /\ result.element > PageNodes
  /\ heap.attrs[result.element].id = "container"
  /\ GetProperty(Style(result.element), "overflow") = "scroll"
  /\ GetProperty(Style(CONTAINER), "overflow") = "hidden"

Aliases(p, q) ==
  \/ p = q
  \/ p = "overflow" /\ q \in {"overflowX", "overflowY"}
  \/ q = "overflow" /\ p \in {"overflowX", "overflowY"}

Unresolvable(hp, t) ==
  IF t.isString
  THEN \A n \in Subtree(hp, HTML) : hp.attrs[n].id # t.id
  ELSE t.el = NULL

C4_TargetNotFoundChangesNothing ==
  [][ (result'.op \in TargetOps /\ Unresolvable(heap, result'.target))
        => (result'.threw /\ heap' = heap /\ handles' = handles) ]_vars

C4_Witness ==
  /\ result.op = "cloneAndAddToDOM"
  /\ result.threw
  /\ result.target = StringTarget("missing")
  /\ heap.kids[BODY] = <<CONTAINER, SIBLING>>

\* C5: calling remove() again on a handle whose remove() has just returned
\* does not throw and leaves the heap as it is, the clone being outside the
\* document.
C5_RemoveIdempotent ==
  result.op = "remove"
    => LET again == remove(heap, result.element)
       IN /\ ~result.threw
          /\ ~again.threw
          /\ again.heap = heap
          /\ ~InDocument(heap, result.element)

C5_Witness ==
  /\ result.op = "remove"
  /\ ~result.threw
  /\ handles # <<>>
  /\ result.element = handles[result.handle]
  /\ parentNode(heap, result.element) = NULL

\* C6 (as claimed): whatever page code did to the clone, the handle's
\* remove() does not raise and leaves the clone outside the document.
C6_RemoveNeverRaises ==
  result.op = "remove"
    => (~result.threw /\ ~InDocument(heap, result.element))

\* C7: getFullDimensions leaves the children of body, and the set of nodes
\* of the document, exactly as before the call, whatever clones are
\* attached.
C7_GetFullDimensionsLeavesNoClone ==
  [][ (result'.op = "getFullDimensions" /\ ~result'.threw)
        => /\ heap'.kids[BODY] = heap.kids[BODY]
           /\ Subtree(heap', HTML) = Subtree(heap, HTML) ]_vars

C7_Witness ==
  /\ result.op = "getFullDimensions"
  /\ ~result.threw
  /\ result.dims.height > 0
  /\ \E h \in 1 .. Len(handles) : parentNode(heap, handles[h]) = BODY

\* C8 (as claimed): the clone attached by cloneAndAddToDOM is the last
\* child of body; it carries the off-screen placement when options.position
\* is absent or unset and the visible placement when it is 'visible' (on
\* the properties options.styles does not itself set).
OffScreenPlacement ==
  << <<"position", "absolute">>, <<"left", "-9999px">>, <<"top", "0">>,
     <<"zIndex", "-1">> >>

VisiblePlacement == << <<"position", "relative">>, <<"display", "block">> >>

Carries(el, placement, styles) ==
  \A i \in 1 .. Len(placement) :
    \/ \E j \in 1 .. Len(styles) : styles[j][1] = placement[i][1]
    \/ GetProperty(Style(el), placement[i][1]) = placement[i][2]

C8_OffScreenByDefault ==
  (result.op = "cloneAndAddToDOM" /\ ~result.threw)
    => /\ heap.kids[BODY] # <<>>
       /\ heap.kids[BODY][Len(heap.kids[BODY])] = result.element
       /\ result.options.position \in {Absent, Undefined}
            => Carries(result.element, OffScreenPlacement,
                       result.options.styles)
       /\ result.options.position = "visible"
            => Carries(result.element, VisiblePlacement,
                       result.options.styles)

\* C9 (as claimed): cloneElement returns a clone without a parent and
\* leaves every child list of the heap as it was; with position
\* 'off-screen' the clone root has position absolute and left -9999px.
C9_DetachedAndOffScreen ==
  [][ (result'.op = "cloneElement" /\ ~result'.threw)
        => /\ parentNode(heap', result'.element) = NULL
           /\ \A n \in Nodes(heap) : heap'.kids[n] = heap.kids[n]
           /\ result'.options.position = "off-screen"
                => /\ InlineStyle(heap', result'.element).position = "absolute"
                   /\ InlineStyle(heap', result'.element).left = "-9999px" ]_vars

\* C9 (amended): cloneElement returns a clone without a parent and leaves
\* every child list of the heap as it was; with position 'off-screen' the
\* clone root has position absolute and left -9999px, except for those of
\* the two properties that options.styles sets itself.
C9_DetachedAndOffScreenUnlessStyled ==
  [][ (result'.op = "cloneElement" /\ ~result'.threw)
        => LET styles == result'.options.styles
               st == InlineStyle(heap', result'.element)
               styled(p) == \E j \in 1 .. Len(styles) : styles[j][1] = p
           IN /\ parentNode(heap', result'.element) = NULL
              /\ \A n \in Nodes(heap) : heap'.kids[n] = heap.kids[n]
              /\ result'.options.position = "off-screen"
                   => /\ styled("position") \/ st.position = "absolute"
                      /\ styled("left") \/ st.left = "-9999px" ]_vars

C9_Witness ==
  /\ result.op = "cloneElement" /\ ~result.threw
  /\ result.options = Opt("off-screen", PlacementProps)
  /\ Style(result.element).position = "absolute"
  /\ Style(result.element).left = "0px"
  /\ parentNode(heap, result.element) = NULL
  /\ heap.kids[BODY] = <<CONTAINER, SIBLING>>

\* C10: checkScrollLimits changes nothing and reports, for the resolved
\* element, the three computed values and whether max-height differs from
\* 'none' and overflow / overflow-y from 'visible'; a connected element with
\* inline overflow hidden and max-height 100px is reported with
\* hasOverflow, hasMaxHeight and the raw values 'hidden' and '100px'.
C10_CheckScrollLimitsReadOnlyReport ==
  [][ (result'.op = "checkScrollLimits" /\ ~result'.threw)
        => LET el == result'.element
               cs == getComputedStyle(heap, el)
               info == result'.info
           IN /\ heap' = heap /\ handles' = handles
              /\ el = ResolveTarget(heap, result'.target)
              /\ info.maxHeight = cs.maxHeight
              /\ info.overflow = cs.overflow
              /\ info.overflowY = cs.overflowY
              /\ info.hasMaxHeight = (cs.maxHeight # "none")
              /\ info.hasOverflow = (cs.overflow # "visible")
              /\ info.hasOverflowY = (cs.overflowY # "visible")
              /\ ( /\ InDocument(heap, el)
                   /\ GetProperty(InlineStyle(heap, el), "overflow") = "hidden"
                   /\ InlineStyle(heap, el).maxHeight = "100px" )
                   => /\ info.hasOverflow /\ info.hasMaxHeight
                      /\ info.overflow = "hidden"
                      /\ info.maxHeight = "100px" ]_vars

C10_Witness ==
  /\ result.op = "checkScrollLimits" /\ ~result.threw
  /\ result.element = CONTAINER
  /\ GetProperty(Style(CONTAINER), "overflow") = "hidden"
  /\ Style(CONTAINER).maxHeight = "100px"
  /\ result.info.hasOverflow /\ result.info.hasMaxHeight
  /\ result.info.overflow = "hidden" /\ result.info.maxHeight = "100px"

\* the height of an element's content when nothing clips it
RECURSIVE ContentHeight(_, _)
RECURSIVE SumContentHeight(_, _)
ContentHeight(hp, n) ==
  IF InlineStyle(hp, n).display = "none" THEN 0
  ELSE hp.attrs[n].h + SumContentHeight(hp, hp.kids[n])

SumContentHeight(hp, s) ==
  IF s = <<>> THEN 0
  ELSE ContentHeight(hp, Head(s)) + SumContentHeight(hp, Tail(s))

\* a bounded max-height with a non-visible overflow on the element or on a
\* descendant
HasScrollLimits(hp, el) ==
  \E n \in Subtree(hp, el) :
    /\ Px(ComputedValues(hp, n).maxHeight) >= 0
    /\ ComputedValues(hp, n).overflowY # "visible"

\* C11 (as claimed): when the target has scroll limits, on itself or on a
\* descendant, the height getFullDimensions returns is at least the height
\* of the target's unclipped content.
C11_FullHeightAtLeastContent ==
  [][ (result'.op = "getFullDimensions" /\ ~result'.threw)
        => LET el == ResolveTarget(heap, result'.target)
           IN HasScrollLimits(heap, el)
                => result'.dims.height >= ContentHeight(heap, el) ]_vars

\* the same with the limits of !important stylesheet rules left aside
C11_PlainRulesOnly ==
  [][ (result'.op = "getFullDimensions" /\ ~result'.threw)
        => LET el == ResolveTarget(heap, result'.target)
           IN ( /\ HasScrollLimits(heap, el)
                /\ \A n \in Subtree(heap, el) :
                     ~Sheet(heap.attrs[n].cls).important )
                => result'.dims.height >= ContentHeight(heap, el) ]_vars

\* C12: the clone of a capture is a child of body for as long as the
\* html2canvas promise of its call is pending; once the promise has settled,
\* fulfilled or rejected, the clone is eventually removed; and when every
\* chain has run to its end no clone of any capture is in the document,
\* however the captures overlapped.
CaptureClone(c) == handles[captures[c].handle]

Settled(c) == c <= Len(captures) /\ captures[c].at # "pending"

Removed(c) ==
  /\ c <= Len(captures)
  /\ captures[c].at = "done"
  /\ ~InDocument(heap, CaptureClone(c))

C12_CloneLivesUntilSettled ==
  /\ [](\A c \in 1 .. Len(captures) :
          /\ captures[c].at = "pending"
               => parentNode(heap, CaptureClone(c)) = BODY
          /\ captures[c].at = "done" => ~InDocument(heap, CaptureClone(c)))
  /\ [](InFlight = {}
          => \A c \in 1 .. Len(captures) : ~InDocument(heap, CaptureClone(c)))
  /\ \A c \in 1 .. MaxCaptures :
       Settled(c) ~> Removed(c)

C12_Witness ==
  /\ Len(captures) = 2
  /\ captures[2].overlaps = 1
  /\ captures[1].outcome = "rejected" /\ captures[1].at = "done"
  /\ ~InDocument(heap, CaptureClone(1))
  /\ captures[2].at = "pending"
  /\ heap.attrs[CaptureClone(2)].id = "container"
  /\ heap.kids[BODY] = <<CONTAINER, SIBLING, CaptureClone(2)>>

\* C13: handles are independent.  cloneAndAddToDOM appends a node that did
\* not exist before, owned by a new handle, as last child of body; the
\* remove of a handle takes that handle's clone, and nothing else, out of
\* body; cloneElement, getDimensions and getFullDimensions leave the
\* children of body as they are.  So the clones in body are, at any time,
\* the clones of the handles whose remove has not been called.
OtherKidsUnchanged ==
  \A n \in Nodes(heap) \ {BODY} : heap'.kids[n] = heap.kids[n]

C13_HandlesIndependent ==
  /\ [](/\ \A i, j \in 1 .. Len(handles) : handles[i] = handles[j] => i = j
        /\ \A n \in Range(heap.kids[BODY]) :
             n > PageNodes => n \in Range(handles))
  /\ [][ /\ (result'.op = "cloneAndAddToDOM" /\ ~result'.threw)
             => /\ result'.element \notin Nodes(heap)
                /\ handles' = Append(handles, result'.element)
                /\ heap'.kids[BODY] = Append(heap.kids[BODY], result'.element)
                /\ OtherKidsUnchanged
         /\ result'.op = "remove"
             => /\ ~result'.threw
                /\ handles' = handles
                /\ heap'.kids[BODY] = Without(heap.kids[BODY], result'.element)
                /\ OtherKidsUnchanged
         /\ (result'.op \notin {"cloneAndAddToDOM", "remove"} \/ result'.threw)
             => /\ handles' = handles
                /\ heap'.kids[BODY] = heap.kids[BODY]
                /\ OtherKidsUnchanged ]_vars

C13_Witness ==
  /\ Len(handles) = 2
  /\ heap.attrs[handles[1]].id = "container"
  /\ heap.attrs[handles[2]].id = "container"
  /\ result.op = "remove" /\ result.handle = 1
  /\ ~InDocument(heap, handles[1])
  /\ heap.kids[BODY] = <<CONTAINER, SIBLING, handles[2]>>

====
